---- MODULE Spec2Model ----
(***************************************************************************)
(* Model of the status bar part of the workbench                           *)
(* (src/vs/workbench/browser/parts/statusbar/statusbarPart.ts): the        *)
(* registration of entries before and after the part's container exists,   *)
(* the placement of an entry's element among its siblings, the accessors   *)
(* handed out to the registrants, the visibility of entries, the focus     *)
(* that is restored on a later turn, and the context menu's actions.       *)
(*                                                                         *)
(* Every addEntry call gets a handle 1, 2, ... in call order.  The handle  *)
(* stands for the objects the call creates: the pending entry, the item    *)
(* container element, the StatusbarEntryItem and the view model entry.     *)
(***************************************************************************)
EXTENDS Integers, Sequences, FiniteSets, TLC

\* ------------------------------------------------------------------ bounds
\* Number of addEntry calls in one behaviour.
MaxEntries == 3
\* Number of accessor calls (update, dispose) in one behaviour.
MaxCalls == 2
\* Number of focus callbacks that can be scheduled at one time.
MaxTimers == 1

\* ------------------------------------------------------------------ inputs
LEFT == "LEFT"
RIGHT == "RIGHT"
StatusbarAlignment == {LEFT, RIGHT}

Ids == {"a", "b", "c"}
Primaries == {10, 20}
\* The registrants of "a" and "b" put their entries on the left, the
\* registrant of "c" puts its entries on the right.
AlignmentsOf(id) == IF id = "c" THEN {RIGHT} ELSE {LEFT}
\* IStatusbarEntry values (the content of an entry), opaque display data:
\* addEntry is called with one of InitialContents, update with one of Contents.
InitialContents == {"c0"}
Contents == {"c0", "c1"}

\* No StatusbarEntryItem was created for a handle / the item was disposed.
NoItem == "none"
DisposedItem == "disposed"

\* hash(id): a pure function of the identifier, distinct for distinct ids.
hash(id) == CASE id = "a" -> 3
              [] id = "b" -> -1
              [] OTHER    -> 2

\* The editor inputs a pane with view state is given, the group it is shown
\* in, the resources view state is kept for and the view states of a control.
NoInput == "undefined"
EditorInputs == {"i1", "i2", "i3", "i4"}
NoGroup == "undefined"
Groups == {"g1"}
NoResource == "undefined"
Resources == {"r1", "r2"}
NoViewState == "undefined"
ViewStates == {"v1", "v2"}

\* tracksEditorViewState(input), as the subclass of the model defines it: the
\* pane keeps view state for every input but i4.
tracksEditorViewState(editorInput) == editorInput # "i4"

\* toEditorViewStateResource(input), as the subclass of the model defines it:
\* i1 and i4 have the resource r1, i2 has r2 and i3 has no resource.
toEditorViewStateResource(editorInput) ==
    CASE editorInput \in {"i1", "i4"} -> "r1"
      [] editorInput = "i2" -> "r2"
      [] OTHER -> NoResource

\* The value of workbench.editor.restoreViewState for the input's resource:
\* the user has switched it off for r2.
RestoreViewStateSetting(editorInput) == toEditorViewStateResource(editorInput) # "r2"

\* No open context was given / the context of an editor that is new in its group.
NoContext == [given |-> FALSE, newInGroup |-> FALSE]
OpenContext(newInGroup) == [given |-> TRUE, newInGroup |-> newInGroup]

VARIABLES
    element,              \* Part.element is set (the container exists)
    pendingEntries,       \* this.pendingEntries: handles in queue order
    pendingEntry,         \* handle -> [entry, accessor]: IPendingStatusbarEntry fields
    registered,           \* one record per addEntry call, indexed by handle
    viewModel,            \* the view model's entries, in its order
    leftItemsContainer,   \* children of the left items container, DOM order
    rightItemsContainer,  \* children of the right items container, DOM order
    item,                 \* handle -> content shown by its StatusbarEntryItem
    pc,                   \* position of createContentArea
    promoting,            \* the local `pending` of the drain loop, 0 if none
    lastCall,             \* history: the operation that made the last step
    calls,                \* history: number of accessor calls made so far
    lastContent,          \* history: handle -> last content given by its registrant
    disposedIn,           \* history: handle -> phase of the first dispose() call
    hidden,               \* the view model's set of hidden entry ids
    storage,              \* the hidden ids the storage service holds
    lastFocused,          \* the entry the view model focused last, 0 if none
    activeElement,        \* the element that has the focus: [at, h]
    timers,               \* the scheduled focus callbacks: their entries, in order
    contextMenu,          \* the actions of the context menu shown last
    input,                \* the editor pane's current input, NoInput if undefined
    group,                \* the editor pane's group, NoGroup if undefined
    groupListener,        \* the group whose will-close event the pane hears
    viewState,            \* the editor memento: <<group, resource>> -> view state
    disposedInputs        \* the editor inputs that were disposed

vars == <<element, pendingEntries, pendingEntry, registered, viewModel,
          leftItemsContainer, rightItemsContainer, item, pc, promoting,
          lastCall, calls, lastContent, disposedIn, hidden, storage,
          lastFocused, activeElement, timers, contextMenu,
          input, group, groupListener, viewState, disposedInputs>>

model == <<element, pendingEntries, pendingEntry, registered, viewModel,
           leftItemsContainer, rightItemsContainer, item, pc, promoting>>

history == <<calls, lastContent, disposedIn>>

\* What the registration and placement of entries leaves alone.
visibility == <<hidden, storage>>

focusState == <<lastFocused, activeElement, timers>>

\* The editor pane with view state and what it works on.
editor == <<input, group, groupListener, viewState, disposedInputs>>

surface == <<visibility, focusState, contextMenu, editor>>

Handles == 1..MaxEntries
Registered == 1..Len(registered)

\* ------------------------------------------------------- sequence helpers
SeqToSet(s) == {s[i] : i \in 1..Len(s)}

RECURSIVE Filter(_, _)
\* Array.prototype.filter: the elements of s that are in keep, in order.
Filter(s, keep) ==
    IF s = <<>> THEN <<>>
    ELSE IF Head(s) \in keep THEN <<Head(s)>> \o Filter(Tail(s), keep)
    ELSE Filter(Tail(s), keep)

RECURSIVE Reverse(_)
Reverse(s) == IF s = <<>> THEN <<>> ELSE Reverse(Tail(s)) \o <<Head(s)>>

IndexOf(s, x) == IF x \in SeqToSet(s)
                 THEN CHOOSE i \in 1..Len(s) : s[i] = x /\ \A j \in 1..(i - 1) : s[j] # x
                 ELSE 0

Count(s, x) == Cardinality({i \in 1..Len(s) : s[i] = x})

\* Node.appendChild on a node that is not yet a child.
AppendChild(children, node) == Append(Filter(children, SeqToSet(children) \ {node}), node)

\* Node.insertBefore(node, ref) with ref a child of the container.
InsertBefore(children, node, ref) ==
    LET rest == Filter(children, SeqToSet(children) \ {node})
        k == IndexOf(rest, ref)
    IN IF k = 0 THEN rest
       ELSE SubSeq(rest, 1, k - 1) \o <<node>> \o SubSeq(rest, k, Len(rest))

\* Element.remove().
RemoveChild(children, node) == Filter(children, SeqToSet(children) \ {node})


\* ------------------------------------------------------------- view model
\* The order the view model keeps its entries in: LEFT entries before RIGHT
\* ones; within LEFT a lower (primary, secondary) key first, within RIGHT a
\* higher one first.  x and y are records of `registered`.
SortsBefore(x, y) ==
    IF x.alignment # y.alignment THEN x.alignment = LEFT
    ELSE LET lower == \/ x.priority.primary < y.priority.primary
                      \/ /\ x.priority.primary = y.priority.primary
                         /\ x.priority.secondary < y.priority.secondary
             higher == \/ x.priority.primary > y.priority.primary
                       \/ /\ x.priority.primary = y.priority.primary
                          /\ x.priority.secondary > y.priority.secondary
         IN IF x.alignment = LEFT THEN lower ELSE higher

\* viewModel.add(entry): the entry joins the entries at its sorted place, after
\* the entries of an equal key.
ViewModelAdd(entries, h, regs) ==
    LET k == Cardinality({i \in 1..Len(entries) : ~SortsBefore(regs[h], regs[entries[i]])})
    IN SubSeq(entries, 1, k) \o <<h>> \o SubSeq(entries, k + 1, Len(entries))

\* The dispose handle viewModel.add returns: removes that one entry, if present.
ViewModelRemove(entries, h) == Filter(entries, SeqToSet(entries) \ {h})

\* viewModel.getEntries(alignment).
GetEntries(entries, alignment, regs) ==
    Filter(entries, {h \in SeqToSet(entries) : regs[h].alignment = alignment})

\* -------------------------------------------------------------- item
\* StatusbarEntryItem.update(entry): the item shows the entry, unless disposed.
ItemUpdate(items, h, entry) ==
    IF items[h] = DisposedItem THEN items ELSE [items EXCEPT ![h] = entry]

\* dispose(item).
ItemDispose(items, h) == [items EXCEPT ![h] = DisposedItem]

\* -------------------------------------------------------------- placement
\* The scan of appendOneStatusbarEntry: the first entry of `entries` before
\* whose element the new element is inserted, 0 if there is none.
\* Mutant: an entry of the same priority counts as a place to insert before.
RECURSIVE InsertionPoint_NotStrict(_, _, _, _)
InsertionPoint_NotStrict(entries, alignment, priority, regs) ==
    IF entries = <<>> THEN 0
    ELSE LET entry == regs[Head(entries)]
             same == entry.priority.primary = priority.primary
             existingEntryPriority == IF same THEN entry.priority.secondary
                                      ELSE entry.priority.primary
             newEntryPriority == IF same THEN priority.secondary ELSE priority.primary
         IN IF \/ alignment = LEFT /\ existingEntryPriority <= newEntryPriority
               \/ alignment = RIGHT /\ existingEntryPriority >= newEntryPriority
            THEN Head(entries)
            ELSE InsertionPoint_NotStrict(Tail(entries), alignment, priority, regs)

RECURSIVE InsertionPoint(_, _, _, _)
InsertionPoint(entries, alignment, priority, regs) ==
    IF entries = <<>> THEN 0
    ELSE LET entry == regs[Head(entries)]
             same == entry.priority.primary = priority.primary
             existingEntryPriority == IF same THEN entry.priority.secondary
                                      ELSE entry.priority.primary
             newEntryPriority == IF same THEN priority.secondary ELSE priority.primary
         IN IF \/ alignment = LEFT /\ existingEntryPriority < newEntryPriority
               \/ alignment = RIGHT /\ existingEntryPriority > newEntryPriority
            THEN Head(entries)
            ELSE InsertionPoint(Tail(entries), alignment, priority, regs)

\* Mutant: the element is always appended, the priority scan is skipped.
appendOneStatusbarEntry_AppendOnly(target, entries, itemContainer, alignment, priority, regs) ==
    AppendChild(target, itemContainer)

\* appendOneStatusbarEntry(itemContainer, alignment, priority): the children
\* of the alignment's container afterwards.  `target` are its children before.
appendOneStatusbarEntry(target, entries, itemContainer, alignment, priority, regs) ==
    LET own == GetEntries(entries, alignment, regs)
        scan == IF alignment = RIGHT THEN Reverse(own) ELSE own
        before == InsertionPoint(scan, alignment, priority, regs)
    IN IF before # 0 THEN InsertBefore(target, itemContainer, before)
       ELSE AppendChild(target, itemContainer)

RECURSIVE AppendAll(_, _)
AppendAll(target, nodes) ==
    IF nodes = <<>> THEN target
    ELSE AppendAll(AppendChild(target, Head(nodes)), Tail(nodes))

\* appendAllStatusbarEntries(), for one alignment's container.
appendAllStatusbarEntries(target, entries, alignment, regs) ==
    LET own == GetEntries(entries, alignment, regs)
    IN AppendAll(target, IF alignment = RIGHT THEN Reverse(own) ELSE own)

\* --------------------------------------------------------------- history
\* Where the registration of handle h stands when its accessor is called.
Phase(h) ==
    IF registered[h].path = "live" THEN "live"
    ELSE IF pendingEntry[h].accessor THEN "promoted"
    ELSE IF promoting = h THEN "window"
    ELSE IF h \in SeqToSet(pendingEntries)
         THEN (IF element THEN "draining" ELSE "unbound")
    ELSE "removed"

NoteCall(op, h, entry) == lastCall' = [op |-> op, h |-> h, entry |-> entry]

\* ------------------------------------------------------------------ init
Init ==
    /\ element = FALSE
    /\ pendingEntries = <<>>
    /\ pendingEntry = [h \in Handles |-> [entry |-> NoItem, accessor |-> FALSE]]
    /\ registered = <<>>
    /\ viewModel = <<>>
    /\ leftItemsContainer = <<>>
    /\ rightItemsContainer = <<>>
    /\ item = [h \in Handles |-> NoItem]
    /\ pc = "idle"
    /\ promoting = 0
    /\ lastCall = [op |-> "init", h |-> 0, entry |-> NoItem]
    /\ calls = 0
    /\ lastContent = [h \in Handles |-> NoItem]
    /\ disposedIn = [h \in Handles |-> "no"]
    /\ hidden = {}
    /\ storage = {}
    /\ lastFocused = 0
    /\ activeElement = [at |-> "body", h |-> 0]
    /\ timers = <<>>
    /\ contextMenu = <<>>
    /\ input = NoInput
    /\ group = NoGroup
    /\ groupListener = NoGroup
    /\ viewState = [k \in Groups \X Resources |-> NoViewState]
    /\ disposedInputs = {}

\* Calls from outside arrive between operations; while createContentArea is
\* promoting a pending entry, a listener of the view model's change
\* notification may call back into the part.
CallsArrive == pc \in {"idle", "notify", "done"}

\* --------------------------------------------------------------- addEntry
\* Mutant: the pending entry is put at the head of the queue.
doAddPendingEntry_Unshift(h, entry) ==
    /\ pendingEntries' = <<h>> \o pendingEntries
    /\ pendingEntry' = [pendingEntry EXCEPT ![h] = [entry |-> entry, accessor |-> FALSE]]
    /\ UNCHANGED <<viewModel, leftItemsContainer, rightItemsContainer, item>>

\* doAddPendingEntry: record the entry; nothing is created or placed.
doAddPendingEntry(h, entry) ==
    /\ pendingEntries' = Append(pendingEntries, h)
    /\ pendingEntry' = [pendingEntry EXCEPT ![h] = [entry |-> entry, accessor |-> FALSE]]
    /\ UNCHANGED <<viewModel, leftItemsContainer, rightItemsContainer, item>>

\* doAddEntry: create the item, place its element, add to the view model.
doAddEntry(h, entry, alignment, priority, regs) ==
    /\ item' = [item EXCEPT ![h] = entry]
    /\ leftItemsContainer' =
         IF alignment = LEFT
         THEN appendOneStatusbarEntry(leftItemsContainer, viewModel, h, alignment, priority, regs)
         ELSE leftItemsContainer
    /\ rightItemsContainer' =
         IF alignment = RIGHT
         THEN appendOneStatusbarEntry(rightItemsContainer, viewModel, h, alignment, priority, regs)
         ELSE rightItemsContainer
    /\ viewModel' = ViewModelAdd(viewModel, h, regs)

\* Mutant: the part counts as created only once createContentArea has returned.
addEntry_BoundAfterDrain(entry, id, alignment, primaryPriority) ==
    LET h == Len(registered) + 1
        priority == [primary |-> primaryPriority, secondary |-> hash(id)]
        rec == [id |-> id, alignment |-> alignment, priority |-> priority,
                path |-> IF pc = "done" THEN "live" ELSE "pending"]
        regs == Append(registered, rec)
    IN /\ CallsArrive
       /\ Len(registered) < MaxEntries
       /\ registered' = regs
       /\ IF pc # "done"
          THEN doAddPendingEntry(h, entry)
          ELSE /\ doAddEntry(h, entry, alignment, priority, regs)
               /\ UNCHANGED <<pendingEntries, pendingEntry>>
       /\ lastContent' = [lastContent EXCEPT ![h] = entry]
       /\ NoteCall("addEntry", h, entry)
       /\ UNCHANGED <<element, pc, promoting, calls, disposedIn, surface>>

addEntry(entry, id, alignment, primaryPriority) ==
    LET h == Len(registered) + 1
        priority == [primary |-> primaryPriority, secondary |-> hash(id)]
        rec == [id |-> id, alignment |-> alignment, priority |-> priority,
                path |-> IF element THEN "live" ELSE "pending"]
        regs == Append(registered, rec)
    IN /\ CallsArrive
       /\ Len(registered) < MaxEntries
       /\ registered' = regs
       /\ IF ~element
          THEN doAddPendingEntry(h, entry)
          ELSE /\ doAddEntry(h, entry, alignment, priority, regs)
               /\ UNCHANGED <<pendingEntries, pendingEntry>>
       /\ lastContent' = [lastContent EXCEPT ![h] = entry]
       /\ NoteCall("addEntry", h, entry)
       /\ UNCHANGED <<element, pc, promoting, calls, disposedIn, surface>>

\* -------------------------------------------------------------- accessors
\* Mutant: update places the entry's element again, at the end of its container.
LiveUpdate_PlacesAgain(h, entry) ==
    /\ item' = ItemUpdate(item, h, entry)
    /\ leftItemsContainer' = IF h \in SeqToSet(leftItemsContainer)
                             THEN AppendChild(leftItemsContainer, h)
                             ELSE leftItemsContainer
    /\ rightItemsContainer' = IF h \in SeqToSet(rightItemsContainer)
                              THEN AppendChild(rightItemsContainer, h)
                              ELSE rightItemsContainer
    /\ UNCHANGED <<viewModel, pendingEntries, pendingEntry>>

\* The accessor doAddEntry returns.
LiveUpdate(h, entry) ==
    /\ item' = ItemUpdate(item, h, entry)
    /\ UNCHANGED <<viewModel, leftItemsContainer, rightItemsContainer,
                   pendingEntries, pendingEntry>>

LiveDispose(h) ==
    /\ viewModel' = ViewModelRemove(viewModel, h)
    /\ leftItemsContainer' = RemoveChild(leftItemsContainer, h)
    /\ rightItemsContainer' = RemoveChild(rightItemsContainer, h)
    /\ item' = ItemDispose(item, h)
    /\ UNCHANGED <<pendingEntries, pendingEntry>>

\* Mutant: an update of a pending entry that is not promoted yet is dropped.
PendingUpdate_Dropped(h, entry) ==
    IF pendingEntry[h].accessor
    THEN LiveUpdate(h, entry)
    ELSE UNCHANGED <<viewModel, leftItemsContainer, rightItemsContainer,
                     pendingEntries, pendingEntry, item>>

\* The accessor doAddPendingEntry returns.
PendingUpdate(h, entry) ==
    IF pendingEntry[h].accessor
    THEN LiveUpdate(h, entry)
    ELSE /\ pendingEntry' = [pendingEntry EXCEPT ![h].entry = entry]
         /\ UNCHANGED <<viewModel, leftItemsContainer, rightItemsContainer,
                        pendingEntries, item>>

\* Mutant: dispose of a pending entry never leaves the queue.
PendingDispose_KeepsQueue(h) ==
    IF pendingEntry[h].accessor
    THEN LiveDispose(h)
    ELSE UNCHANGED <<viewModel, leftItemsContainer, rightItemsContainer,
                     pendingEntries, pendingEntry, item>>

\* Mutant: dispose never forwards to the live accessor.
PendingDispose_NeverForwards(h) ==
    /\ pendingEntries' = Filter(pendingEntries, SeqToSet(pendingEntries) \ {h})
    /\ UNCHANGED <<viewModel, leftItemsContainer, rightItemsContainer,
                   pendingEntry, item>>

\* Mutant: dispose takes every pending entry of the same id, alignment and
\* priority out of the queue.
PendingDispose_SameKey(h) ==
    IF pendingEntry[h].accessor
    THEN LiveDispose(h)
    ELSE /\ pendingEntries' =
              Filter(pendingEntries,
                     {g \in SeqToSet(pendingEntries) :
                         [registered[g] EXCEPT !.path = ""] # [registered[h] EXCEPT !.path = ""]})
         /\ UNCHANGED <<viewModel, leftItemsContainer, rightItemsContainer,
                        pendingEntry, item>>

PendingDispose(h) ==
    IF pendingEntry[h].accessor
    THEN LiveDispose(h)
    ELSE /\ pendingEntries' = Filter(pendingEntries, SeqToSet(pendingEntries) \ {h})
         /\ UNCHANGED <<viewModel, leftItemsContainer, rightItemsContainer,
                        pendingEntry, item>>

\* accessor.update(entry) on the accessor addEntry returned for handle h.
update(h, entry) ==
    /\ CallsArrive
    /\ h \in Registered
    /\ calls < MaxCalls
    /\ calls' = calls + 1
    /\ IF registered[h].path = "pending"
       THEN PendingUpdate(h, entry)
       ELSE LiveUpdate(h, entry)
    /\ lastContent' = IF disposedIn[h] = "no"
                      THEN [lastContent EXCEPT ![h] = entry]
                      ELSE lastContent
    /\ NoteCall("update", h, entry)
    /\ UNCHANGED <<element, registered, pc, promoting, disposedIn, surface>>

\* accessor.dispose() on the accessor addEntry returned for handle h.
dispose(h) ==
    /\ CallsArrive
    /\ h \in Registered
    /\ calls < MaxCalls
    /\ calls' = calls + 1
    /\ IF registered[h].path = "pending"
       THEN PendingDispose(h)
       ELSE LiveDispose(h)
    /\ disposedIn' = [disposedIn EXCEPT ![h] = IF @ = "no" THEN Phase(h) ELSE @]
    /\ NoteCall("dispose", h, NoItem)
    /\ UNCHANGED <<element, registered, pc, promoting, lastContent, surface>>

\* ------------------------------------------------------ createContentArea
\* Mutant: the container reference is not set.
createContentArea_ContainerNotSet ==
    /\ pc = "idle"
    /\ ~element
    /\ element' = FALSE
    /\ leftItemsContainer' = appendAllStatusbarEntries(<<>>, viewModel, LEFT, registered)
    /\ rightItemsContainer' = appendAllStatusbarEntries(<<>>, viewModel, RIGHT, registered)
    /\ pc' = "drain"
    /\ NoteCall("createContentArea", 0, NoItem)
    /\ UNCHANGED <<pendingEntries, pendingEntry, registered, viewModel, item,
                   promoting, history, surface>>

\* createContentArea up to the drain loop of createInitialStatusbarEntries:
\* the container is set, both item containers are created and the entries the
\* view model already has are appended.
createContentArea ==
    /\ pc = "idle"
    /\ ~element
    /\ element' = TRUE
    /\ leftItemsContainer' = appendAllStatusbarEntries(<<>>, viewModel, LEFT, registered)
    /\ rightItemsContainer' = appendAllStatusbarEntries(<<>>, viewModel, RIGHT, registered)
    /\ pc' = "drain"
    /\ NoteCall("createContentArea", 0, NoItem)
    /\ UNCHANGED <<pendingEntries, pendingEntry, registered, viewModel, item,
                   promoting, history, surface>>

\* One turn of the loop: pendingEntries.shift() and the addEntry call for it,
\* up to the view model's notification of the added entry.
\* Mutant: pop() instead of shift().
shiftPending_Pop(entries) ==
    <<entries[Len(entries)], SubSeq(entries, 1, Len(entries) - 1)>>

shiftPending(entries) == <<Head(entries), Tail(entries)>>

drainPending ==
    /\ pc = "drain"
    /\ pendingEntries # <<>>
    /\ LET shifted == shiftPending(pendingEntries)
           pending == shifted[1]
           id == registered[pending].id
           alignment == registered[pending].alignment
           priority == [primary |-> registered[pending].priority.primary,
                        secondary |-> hash(id)]
       IN /\ pendingEntries' = shifted[2]
          /\ promoting' = pending
          /\ doAddEntry(pending, pendingEntry[pending].entry, alignment, priority, registered)
    /\ pc' = "notify"
    /\ NoteCall("drain", promoting', NoItem)
    /\ UNCHANGED <<element, pendingEntry, registered, history, surface>>

\* addEntry returned: pending.accessor = <the live accessor>.
attachAccessor ==
    /\ pc = "notify"
    /\ pendingEntry' = [pendingEntry EXCEPT ![promoting].accessor = TRUE]
    /\ promoting' = 0
    /\ pc' = "drain"
    /\ NoteCall("attach", promoting, NoItem)
    /\ UNCHANGED <<element, pendingEntries, registered, viewModel,
                   leftItemsContainer, rightItemsContainer, item, history, surface>>

\* The loop ends: createContentArea returns.
drainDone ==
    /\ pc = "drain"
    /\ pendingEntries = <<>>
    /\ pc' = "done"
    /\ NoteCall("return", 0, NoItem)
    /\ UNCHANGED <<element, pendingEntries, pendingEntry, registered, viewModel,
                   leftItemsContainer, rightItemsContainer, item, promoting,
                   history, surface>>

Next ==
    \/ \E entry \in InitialContents, id \in Ids, primary \in Primaries :
       \E alignment \in AlignmentsOf(id) :
          addEntry(entry, id, alignment, primary)
    \/ \E h \in Handles, entry \in Contents : update(h, entry)
    \/ \E h \in Handles : dispose(h)
    \/ createContentArea
    \/ drainPending
    \/ attachAccessor
    \/ drainDone

Spec == Init /\ [][Next]_vars

\* -------------------------------------------------------------- visibility
\* viewModel.hide(id), viewModel.show(id): the hidden ids afterwards.
ViewModelHide(ids, id) == ids \cup {id}

ViewModelShow(ids, id) == ids \ {id}

\* viewModel.isHidden(id).
ViewModelIsHidden(ids, id) == id \in ids

isEntryVisible(id) == ~ViewModelIsHidden(hidden, id)

\* Mutant: the two branches are swapped.
updateEntryVisibility_Swapped(id, visible) ==
    /\ CallsArrive
    /\ hidden' = IF visible THEN ViewModelHide(hidden, id) ELSE ViewModelShow(hidden, id)
    /\ storage' = hidden'
    /\ lastCall' = [op |-> "updateEntryVisibility", h |-> 0, entry |-> NoItem,
                    id |-> id, visible |-> visible]
    /\ UNCHANGED <<model, history, focusState, contextMenu, editor>>

\* updateEntryVisibility(id, visible); the view model saves the hidden ids
\* to the storage service whenever show or hide changes them.
updateEntryVisibility(id, visible) ==
    /\ CallsArrive
    /\ hidden' = IF visible THEN ViewModelShow(hidden, id) ELSE ViewModelHide(hidden, id)
    /\ storage' = hidden'
    /\ lastCall' = [op |-> "updateEntryVisibility", h |-> 0, entry |-> NoItem,
                    id |-> id, visible |-> visible]
    /\ UNCHANGED <<model, history, focusState, contextMenu, editor>>

\* The workbench starts again: a new part and a new view model are
\* constructed, and the view model reads its hidden ids from the storage
\* service.
restart ==
    /\ pc \in {"idle", "done"}
    /\ element' = FALSE
    /\ pendingEntries' = <<>>
    /\ pendingEntry' = [h \in Handles |-> [entry |-> NoItem, accessor |-> FALSE]]
    /\ registered' = <<>>
    /\ viewModel' = <<>>
    /\ leftItemsContainer' = <<>>
    /\ rightItemsContainer' = <<>>
    /\ item' = [h \in Handles |-> NoItem]
    /\ pc' = "idle"
    /\ promoting' = 0
    /\ calls' = 0
    /\ lastContent' = [h \in Handles |-> NoItem]
    /\ disposedIn' = [h \in Handles |-> "no"]
    /\ hidden' = storage
    /\ lastFocused' = 0
    /\ activeElement' = [at |-> "body", h |-> 0]
    /\ timers' = <<>>
    /\ contextMenu' = <<>>
    /\ lastCall' = [op |-> "restart", h |-> 0, entry |-> NoItem]
    /\ UNCHANGED <<storage, editor>>

NextVisibility ==
    \/ \E entry \in InitialContents, id \in Ids, primary \in Primaries :
       \E alignment \in AlignmentsOf(id) :
          addEntry(entry, id, alignment, primary)
    \/ createContentArea
    \/ drainPending
    \/ attachAccessor
    \/ drainDone
    \/ \E id \in Ids, visible \in BOOLEAN : updateEntryVisibility(id, visible)
    \/ restart

SpecVisibility == Init /\ [][NextVisibility]_vars

\* ------------------------------------------------------------------ focus
\* Keyboard commands and timer callbacks run on a turn of the event loop of
\* their own, never inside createContentArea.
OwnTurn == pc \in {"idle", "done"}

\* The element of entry h is a child of one of the two containers.
Attached(h) == h \in SeqToSet(leftItemsContainer \o rightItemsContainer)

\* viewModel.lastFocusedEntry: nothing (0) if no entry was focused yet or the
\* entry was removed from the view model by its dispose handle.
LastFocusedEntry == IF lastFocused \in SeqToSet(viewModel) THEN lastFocused ELSE 0

\* The view model entry whose label container has the focus, 0 if none.
FocusedEntry ==
    IF /\ activeElement.at = "label"
       /\ activeElement.h \in SeqToSet(viewModel)
       /\ Attached(activeElement.h)
    THEN activeElement.h ELSE 0

isEntryFocused == FocusedEntry # 0

\* labelContainer.focus() of entry h: the active element afterwards.  An
\* element that is not in the document does not take the focus.
LabelContainerFocus(h) ==
    IF Attached(h) THEN [at |-> "label", h |-> h] ELSE activeElement

\* The entries focus navigation moves over: the visible ones, in view model order.
VisibleEntries ==
    Filter(viewModel, {h \in SeqToSet(viewModel) : ~ViewModelIsHidden(hidden, registered[h].id)})

\* The entry viewModel.focusNextEntry (delta 1) or focusPreviousEntry (delta
\* -1) focuses, 0 if there is none; past the last entry it starts again at
\* the first one, and before the first one at the last.
ViewModelFocusTarget(delta) ==
    LET entries == VisibleEntries
        k == IndexOf(entries, FocusedEntry)
    IN IF entries = <<>> THEN 0
       ELSE IF delta = 1
            THEN (IF k = 0 \/ k = Len(entries) THEN entries[1] ELSE entries[k + 1])
            ELSE (IF k <= 1 THEN entries[Len(entries)] ELSE entries[k - 1])

ViewModelFocusEntry(delta, op) ==
    LET target == ViewModelFocusTarget(delta)
    IN /\ OwnTurn
       /\ IF target = 0
          THEN UNCHANGED <<lastFocused, activeElement>>
          ELSE /\ lastFocused' = target
               /\ activeElement' = LabelContainerFocus(target)
       /\ lastCall' = [op |-> op, h |-> target, entry |-> NoItem]
       /\ UNCHANGED <<model, history, visibility, timers, contextMenu, editor>>

focusNextEntry == ViewModelFocusEntry(1, "focusNextEntry")

focusPreviousEntry == ViewModelFocusEntry(-1, "focusPreviousEntry")

\* Mutant: the callback is scheduled whenever preserveEntryFocus is set, for
\* whatever entry was focused last.
focus_SchedulesAlways(preserveEntryFocus) ==
    /\ OwnTurn
    /\ Len(timers) < MaxTimers
    /\ activeElement' = IF element THEN [at |-> "container", h |-> 0] ELSE activeElement
    /\ timers' = IF preserveEntryFocus THEN Append(timers, lastFocused) ELSE timers
    /\ lastCall' = [op |-> "focus", h |-> 0, entry |-> NoItem,
                    preserveEntryFocus |-> preserveEntryFocus]
    /\ UNCHANGED <<model, history, visibility, lastFocused, contextMenu, editor>>

\* focus(preserveEntryFocus): the container takes the focus; the focus of the
\* entry focused last is restored by a callback on a later turn.
focus(preserveEntryFocus) ==
    /\ OwnTurn
    /\ Len(timers) < MaxTimers
    /\ activeElement' = IF element THEN [at |-> "container", h |-> 0] ELSE activeElement
    /\ timers' = IF preserveEntryFocus /\ LastFocusedEntry # 0
                 THEN Append(timers, LastFocusedEntry)
                 ELSE timers
    /\ lastCall' = [op |-> "focus", h |-> 0, entry |-> NoItem,
                    preserveEntryFocus |-> preserveEntryFocus]
    /\ UNCHANGED <<model, history, visibility, lastFocused, contextMenu, editor>>

\* The callback of setTimeout(..., 0): lastFocusedEntry.labelContainer.focus()
\* on the entry focus() captured.
focusCallback ==
    /\ OwnTurn
    /\ timers # <<>>
    /\ activeElement' = LabelContainerFocus(Head(timers))
    /\ timers' = Tail(timers)
    /\ lastCall' = [op |-> "focusCallback", h |-> Head(timers), entry |-> NoItem]
    /\ UNCHANGED <<model, history, visibility, lastFocused, contextMenu, editor>>

\* Focus does not look at priorities: one primary priority is enough here.
FocusPrimaries == {10}

NextFocus ==
    \/ \E entry \in InitialContents, id \in Ids, primary \in FocusPrimaries :
       \E alignment \in AlignmentsOf(id) :
          addEntry(entry, id, alignment, primary)
    \/ \E h \in Handles : dispose(h)
    \/ createContentArea
    \/ drainPending
    \/ attachAccessor
    \/ drainDone
    \/ focusNextEntry
    \/ focusPreviousEntry
    \/ \E preserveEntryFocus \in BOOLEAN : focus(preserveEntryFocus)
    \/ focusCallback

SpecFocus == Init /\ [][NextFocus]_vars

\* ----------------------------------------------------------- context menu
\* The elements a context menu event can have as its target: the part's
\* element, the two items containers, the item container of an entry and the
\* label container inside it.
NoElement == [kind |-> "none", h |-> 0]
PartElement == [kind |-> "part", h |-> 0]
ItemsContainer(alignment) == [kind |-> alignment, h |-> 0]
ItemContainer(h) == [kind |-> "item", h |-> h]
LabelContainer(h) == [kind |-> "label", h |-> h]

\* The elements that are in the document under the part's element.
Elements ==
    {PartElement, ItemsContainer(LEFT), ItemsContainer(RIGHT)}
        \cup {ItemContainer(h) : h \in {g \in Registered : Attached(g)}}
        \cup {LabelContainer(h) : h \in {g \in Registered : Attached(g)}}

\* element.parentElement, NoElement above the part's element.
ParentElement(e) ==
    CASE e.kind = "label" -> ItemContainer(e.h)
      [] e.kind = "item" ->
            IF e.h \in SeqToSet(leftItemsContainer) THEN ItemsContainer(LEFT)
            ELSE IF e.h \in SeqToSet(rightItemsContainer) THEN ItemsContainer(RIGHT)
            ELSE NoElement
      [] e.kind \in {LEFT, RIGHT} -> PartElement
      [] OTHER -> NoElement

\* viewModel.findEntry(element): the entry whose item container the element
\* is, 0 if there is none.
ViewModelFindEntry(entries, e) ==
    IF e.kind = "item" /\ e.h \in SeqToSet(entries) THEN e.h ELSE 0

ToggleStatusbarVisibilityAction == [kind |-> "toggleStatusbar", id |-> ""]
Separator == [kind |-> "separator", id |-> ""]
ToggleStatusbarEntryVisibilityAction(id) == [kind |-> "toggleEntry", id |-> id]
HideStatusbarEntryAction(id) == [kind |-> "hideEntry", id |-> id]

\* Mutant: one toggle action per entry, whether its id was handled or not.
RECURSIVE EntryActions_PerEntry(_, _)
EntryActions_PerEntry(entries, handledEntries) ==
    IF entries = <<>> THEN <<>>
    ELSE <<ToggleStatusbarEntryVisibilityAction(registered[Head(entries)].id)>>
            \o EntryActions_PerEntry(Tail(entries), handledEntries)

\* The loop over viewModel.entries: one action per identifier not handled yet.
RECURSIVE EntryActions(_, _)
EntryActions(entries, handledEntries) ==
    IF entries = <<>> THEN <<>>
    ELSE LET id == registered[Head(entries)].id
         IN IF id \in handledEntries
            THEN EntryActions(Tail(entries), handledEntries)
            ELSE <<ToggleStatusbarEntryVisibilityAction(id)>>
                    \o EntryActions(Tail(entries), handledEntries \cup {id})

\* The loop from event.target upwards: the first entry findEntry finds.
RECURSIVE StatusEntryUnderMouse(_)
StatusEntryUnderMouse(e) ==
    IF e = NoElement THEN 0
    ELSE LET entry == ViewModelFindEntry(viewModel, e)
         IN IF entry # 0 THEN entry ELSE StatusEntryUnderMouse(ParentElement(e))

getContextMenuActions(target) ==
    LET statusEntryUnderMouse == StatusEntryUnderMouse(target)
    IN <<ToggleStatusbarVisibilityAction, Separator>>
          \o EntryActions(viewModel, {})
          \o (IF statusEntryUnderMouse # 0
              THEN <<Separator, HideStatusbarEntryAction(registered[statusEntryUnderMouse].id)>>
              ELSE <<>>)

\* The context menu listener createContentArea registers on the part's
\* element: a context menu event with the given target arrives.
showContextMenu(target) ==
    /\ OwnTurn
    /\ element
    /\ contextMenu' = getContextMenuActions(target)
    /\ lastCall' = [op |-> "showContextMenu", h |-> 0, entry |-> NoItem, target |-> target]
    /\ UNCHANGED <<model, history, visibility, focusState, editor>>

NextMenu ==
    \/ \E entry \in InitialContents, id \in Ids, primary \in FocusPrimaries :
       \E alignment \in AlignmentsOf(id) :
          addEntry(entry, id, alignment, primary)
    \/ \E h \in Handles : dispose(h)
    \/ createContentArea
    \/ drainPending
    \/ attachAccessor
    \/ drainDone
    \/ \E target \in Elements : showContextMenu(target)

SpecMenu == Init /\ [][NextMenu]_vars

\* ------------------------------------------------- editor pane view state
\* The memento of the pane: view states keyed by group and resource.
\* saveEditorState(group, resource, state) stores the state under the key.
MementoSaveEditorState(states, g, resource, state) ==
    [states EXCEPT ![<<g, resource>>] = state]

\* clearEditorState(resource, group) forgets the state of the resource in
\* the group, in every group when no group is given.
MementoClearEditorState(states, resource, g) ==
    [k \in DOMAIN states |->
        IF k[2] = resource /\ (g = NoGroup \/ k[1] = g)
        THEN NoViewState
        ELSE states[k]]

\* input.isDisposed()
isDisposed(editorInput) == editorInput \in disposedInputs

shouldRestoreEditorViewState(editorInput, context) ==
    IF context.given /\ context.newInGroup
    THEN (IF RestoreViewStateSetting(editorInput) = FALSE THEN FALSE ELSE TRUE)
    ELSE TRUE

clearEditorViewState(states, resource, g) ==
    MementoClearEditorState(states, resource, g)

\* `computed` is what computeEditorViewState(resource) returns.
saveEditorViewState(states, resource, computed) ==
    IF group = NoGroup THEN states
    ELSE IF computed = NoViewState THEN states
    ELSE MementoSaveEditorState(states, group, resource, computed)

\* Mutant: a disposed input's view state is saved like any other.
updateEditorViewState_SavesDisposed(states, editorInput, tracksDisposed, computed, contains) ==
    IF editorInput = NoInput \/ ~tracksEditorViewState(editorInput) THEN states
    ELSE LET resource == toEditorViewStateResource(editorInput)
         IN IF resource = NoResource THEN states
            ELSE IF \/ isDisposed(editorInput) /\ ~tracksDisposed
                    \/ /\ ~shouldRestoreEditorViewState(editorInput, NoContext)
                       /\ (group = NoGroup \/ ~contains)
                 THEN clearEditorViewState(states, resource, group)
                 ELSE saveEditorViewState(states, resource, computed)

\* The memento after updateEditorViewState(input). `tracksDisposed` is what
\* tracksDisposedEditorViewState() returns, `computed` what
\* computeEditorViewState(resource) returns and `contains` what
\* group.contains(input) returns.
updateEditorViewState(states, editorInput, tracksDisposed, computed, contains) ==
    IF editorInput = NoInput \/ ~tracksEditorViewState(editorInput) THEN states
    ELSE LET resource == toEditorViewStateResource(editorInput)
         IN IF resource = NoResource THEN states
            ELSE IF \/ isDisposed(editorInput) /\ ~tracksDisposed
                    \/ /\ ~shouldRestoreEditorViewState(editorInput, NoContext)
                       /\ (group = NoGroup \/ ~contains)
                 THEN clearEditorViewState(states, resource, group)
                 ELSE IF ~isDisposed(editorInput)
                      THEN saveEditorViewState(states, resource, computed)
                      ELSE states

NoteEditorCall(op, editorInput, tracksDisposed, computed) ==
    lastCall' = [op |-> op, h |-> 0, entry |-> NoItem, input |-> editorInput,
                 tracksDisposed |-> tracksDisposed, computed |-> computed]

\* What the base class EditorPane does in setVisible, setInput and clearInput.
EditorPaneSetVisible(g) == group' = g
EditorPaneSetInput(editorInput) == input' = editorInput
EditorPaneClearInput == input' = NoInput

\* The pane listens to the will-close event of the group it is shown in.
setEditorVisible(visible, g) == groupListener' = g

\* EditorPane.setVisible(visible, group): the pane is shown in a group or hidden.
setVisible(visible, g) ==
    /\ EditorPaneSetVisible(g)
    /\ setEditorVisible(visible, g)
    /\ lastCall' = [op |-> "setVisible", h |-> 0, entry |-> NoItem]
    /\ UNCHANGED <<input, viewState, disposedInputs>>
    /\ UNCHANGED <<model, history, visibility, focusState, contextMenu>>

\* The listener of the group's will-close event.
onWillCloseEditor(editorInput, tracksDisposed, computed, contains) ==
    IF editorInput = input
    THEN viewState' = updateEditorViewState(viewState, editorInput, tracksDisposed,
                                            computed, contains)
    ELSE UNCHANGED viewState

\* The group closes an editor: it fires its will-close event, which the pane
\* hears when it listens to the group. The group still contains the editor.
closeEditor(editorInput, tracksDisposed, computed) ==
    /\ IF groupListener # NoGroup
       THEN onWillCloseEditor(editorInput, tracksDisposed, computed, TRUE)
       ELSE UNCHANGED viewState
    /\ NoteEditorCall("closeEditor", editorInput, tracksDisposed, computed)
    /\ UNCHANGED <<input, group, groupListener, disposedInputs>>
    /\ UNCHANGED <<model, history, visibility, focusState, contextMenu>>

\* Mutant: the view state is updated after the base class has set the input.
setInput_UpdatesAfter(editorInput, tracksDisposed, computed, contains) ==
    /\ EditorPaneSetInput(editorInput)
    /\ viewState' = updateEditorViewState(viewState, editorInput, tracksDisposed,
                                          computed, contains)
    /\ NoteEditorCall("setInput", editorInput, tracksDisposed, computed)
    /\ UNCHANGED <<group, groupListener, disposedInputs>>
    /\ UNCHANGED <<model, history, visibility, focusState, contextMenu>>

setInput(editorInput, tracksDisposed, computed, contains) ==
    /\ viewState' = updateEditorViewState(viewState, input, tracksDisposed,
                                          computed, contains)
    /\ EditorPaneSetInput(editorInput)
    /\ NoteEditorCall("setInput", editorInput, tracksDisposed, computed)
    /\ UNCHANGED <<group, groupListener, disposedInputs>>
    /\ UNCHANGED <<model, history, visibility, focusState, contextMenu>>

clearInput(tracksDisposed, computed, contains) ==
    /\ viewState' = updateEditorViewState(viewState, input, tracksDisposed,
                                          computed, contains)
    /\ EditorPaneClearInput
    /\ NoteEditorCall("clearInput", NoInput, tracksDisposed, computed)
    /\ UNCHANGED <<group, groupListener, disposedInputs>>
    /\ UNCHANGED <<model, history, visibility, focusState, contextMenu>>

saveState(tracksDisposed, computed, contains) ==
    /\ viewState' = updateEditorViewState(viewState, input, tracksDisposed,
                                          computed, contains)
    /\ NoteEditorCall("saveState", input, tracksDisposed, computed)
    /\ UNCHANGED <<input, group, groupListener, disposedInputs>>
    /\ UNCHANGED <<model, history, visibility, focusState, contextMenu>>

\* input.dispose() of an editor input.
disposeInput(editorInput) ==
    /\ editorInput \notin disposedInputs
    /\ disposedInputs' = disposedInputs \cup {editorInput}
    /\ lastCall' = [op |-> "disposeInput", h |-> 0, entry |-> NoItem]
    /\ UNCHANGED <<input, group, groupListener, viewState>>
    /\ UNCHANGED <<model, history, visibility, focusState, contextMenu>>

NextEditor ==
    \/ \E g \in Groups \cup {NoGroup} : setVisible(g # NoGroup, g)
    \/ \E editorInput \in EditorInputs : disposeInput(editorInput)
    \/ \E tracksDisposed \in BOOLEAN, computed \in ViewStates \cup {NoViewState} :
          \E editorInput \in EditorInputs :
             closeEditor(editorInput, tracksDisposed, computed)
    \/ \E tracksDisposed \in BOOLEAN, computed \in ViewStates \cup {NoViewState},
          contains \in BOOLEAN :
          \/ \E editorInput \in EditorInputs :
                setInput(editorInput, tracksDisposed, computed, contains)
          \/ clearInput(tracksDisposed, computed, contains)
          \/ saveState(tracksDisposed, computed, contains)

SpecEditor == Init /\ [][NextEditor]_vars

\* ------------------------------------------------------------ type check
TypeOK ==
    /\ element \in BOOLEAN
    /\ SeqToSet(pendingEntries) \subseteq Registered
    /\ SeqToSet(viewModel) \subseteq Registered
    /\ pc \in {"idle", "drain", "notify", "done"}
    /\ promoting \in 0..MaxEntries

\* ================================================================ claims
Entry(id, alignment, primary, path) ==
    [id |-> id, alignment |-> alignment,
     priority |-> [primary |-> primary, secondary |-> hash(id)], path |-> path]

\* The children of the items container of an alignment.
Container(alignment) ==
    IF alignment = LEFT THEN leftItemsContainer ELSE rightItemsContainer

NeverDisposed == \A h \in Registered : disposedIn[h] = "no"

\* ---------------------------------------------------------------- C1
\* The scenario of C1: a (10, LEFT), b (20, LEFT) and c (10, RIGHT) were
\* registered in this order before the container existed, nothing was
\* disposed, and createContentArea has returned.
C1_Scenario ==
    /\ pc = "done"
    /\ registered = << Entry("a", LEFT, 10, "pending"),
                       Entry("b", LEFT, 20, "pending"),
                       Entry("c", RIGHT, 10, "pending") >>
    /\ NeverDisposed

C2_ViewModelAndDomInSync ==
    (element /\ pc = "done") =>
        /\ \A h \in Registered :
              /\ (h \in SeqToSet(viewModel)) <=>
                     (h \in SeqToSet(Container(registered[h].alignment)))
              /\ Count(viewModel, h) <= 1
              /\ Count(leftItemsContainer \o rightItemsContainer, h) <= 1
              /\ h \in SeqToSet(leftItemsContainer) => registered[h].alignment = LEFT
              /\ h \in SeqToSet(rightItemsContainer) => registered[h].alignment = RIGHT
        /\ \A h \in Registered :
              disposedIn[h] # "no" =>
                  h \notin SeqToSet(leftItemsContainer \o rightItemsContainer)

\* ---------------------------------------------------------------- C3
\* C3: an addEntry call made while no container exists appends exactly the new
\* pending entry at the tail of the pending queue and leaves the view model,
\* both item containers and the items unchanged.
C3_UnboundAddOnlyEnqueues ==
    [][ (~element /\ lastCall'.op = "addEntry" /\ Len(registered') = Len(registered) + 1) =>
            /\ pendingEntries' = Append(pendingEntries, Len(registered'))
            /\ pendingEntry'[Len(registered')].accessor = FALSE
            /\ pendingEntry'[Len(registered')].entry = lastCall'.entry
            /\ UNCHANGED <<viewModel, leftItemsContainer, rightItemsContainer, item, element>>
      ]_vars

\* An entry was added behind another one while no container existed.
C3_Witness ==
    /\ ~element
    /\ lastCall.op = "addEntry"
    /\ Len(pendingEntries) >= 2
    /\ pendingEntries[Len(pendingEntries)] = Len(registered)
    /\ item[Len(registered)] = NoItem

\* ---------------------------------------------------------------- C4
PendingPath == {h \in Registered : registered[h].path = "pending"}

\* C4: when the drain starts the live add of a pending entry B, no other live
\* add is in progress, no entry registered before B is still in the queue, and
\* every entry registered before B that was given a live entry has its live
\* accessor attached already (its live add has returned).
C4_PromotedInRegistrationOrder ==
    [][ lastCall'.op = "drain" =>
            LET b == promoting'
            IN /\ promoting = 0
               /\ b = Head(pendingEntries)
               /\ \A a \in SeqToSet(pendingEntries') : a > b
               /\ \A a \in PendingPath :
                     a < b => /\ a \notin SeqToSet(pendingEntries')
                              /\ item[a] # NoItem => pendingEntry[a].accessor
      ]_vars

\* The second pending entry is being promoted after the first one was.
C4_Witness ==
    /\ lastCall.op = "drain"
    /\ promoting = 2
    /\ pendingEntry[1].accessor
    /\ 1 \in SeqToSet(viewModel)
    /\ 3 \in SeqToSet(pendingEntries)

\* ---------------------------------------------------------------- C5
\* What C5 and its amendment share: an entry disposed before the container was
\* created never gets an item or a view model entry, and no entry is in the
\* pending queue and in the view model at once.
C5_NoneLostOrDuplicated ==
    /\ \A h \in Registered :
          disposedIn[h] = "unbound" =>
              /\ item[h] = NoItem
              /\ h \notin SeqToSet(viewModel)
              /\ h \notin SeqToSet(pendingEntries)
    /\ SeqToSet(pendingEntries) \cap SeqToSet(viewModel) = {}
    /\ \A h \in Registered : Count(viewModel, h) <= 1 /\ Count(pendingEntries, h) <= 1

\* C5 as stated: when createContentArea returns, every entry registered before
\* the container existed and not disposed before the container was created is
\* in the view model exactly once.
C5_LiveUnlessDisposedBeforeCreation ==
    /\ C5_NoneLostOrDuplicated
    /\ lastCall.op = "return" =>
          \A h \in PendingPath :
              disposedIn[h] # "unbound" => Count(viewModel, h) = 1

\* C5 (amended): when createContentArea returns, every entry registered before
\* the container existed and not disposed before createContentArea returns is
\* in the view model exactly once.
C5_LiveUnlessDisposedBeforeReturn ==
    /\ C5_NoneLostOrDuplicated
    /\ lastCall.op = "return" =>
          \A h \in PendingPath :
              disposedIn[h] = "no" => Count(viewModel, h) = 1

\* createContentArea has returned: one entry was disposed before the container
\* was created, one while the drain was running, one was not disposed.
C5_Witness ==
    /\ lastCall.op = "return"
    /\ \E h \in PendingPath : disposedIn[h] = "unbound" /\ item[h] = NoItem
    /\ \E h \in PendingPath : disposedIn[h] = "draining" /\ item[h] = NoItem
    /\ \E h \in PendingPath : disposedIn[h] = "no" /\ Count(viewModel, h) = 1

\* ---------------------------------------------------------------- C6
\* C6: createContentArea returns with an empty pending queue; once the
\* container exists no step adds to the pending queue, and every addEntry call
\* (also one made while the drain is running) takes the live path: the new
\* entry is in the view model and in its container, not in the queue.
C6_NeverPendingOnceBound ==
    [][ /\ pc' = "done" => pendingEntries' = <<>>
        /\ element => SeqToSet(pendingEntries') \subseteq SeqToSet(pendingEntries)
        /\ (element /\ lastCall'.op = "addEntry" /\ Len(registered') = Len(registered) + 1) =>
              LET h == Len(registered')
              IN /\ registered'[h].path = "live"
                 /\ pendingEntries' = pendingEntries
                 /\ h \in SeqToSet(viewModel')
                 /\ item'[h] = lastCall'.entry
      ]_vars

\* An addEntry call made while the drain is running, with entries still queued.
C6_Witness ==
    /\ pc = "notify"
    /\ lastCall.op = "addEntry"
    /\ registered[lastCall.h].path = "live"
    /\ lastCall.h \in SeqToSet(viewModel)
    /\ pendingEntries # <<>>

\* ---------------------------------------------------------------- C7
PositionIn(s, h) == IndexOf(s, h)

\* Two entries of one alignment that tie on the primary priority and differ in
\* the identifier.
Tie(a, b) ==
    /\ a # b
    /\ registered[a].alignment = registered[b].alignment
    /\ registered[a].priority.primary = registered[b].priority.primary
    /\ registered[a].id # registered[b].id

OnlyEntriesOfAlignment(a, b) ==
    {g \in Registered : registered[g].alignment = registered[a].alignment} = {a, b}

\* C7: a pending entry is promoted with the content of the last update made
\* before its promotion (not the content passed to addEntry), and when
\* createContentArea has returned, two entries registered before the container
\* existed, tying on the primary priority and never disposed, are both in the
\* view model and in their container; the view model orders them by their
\* secondary priorities, and when they are the only entries registered for
\* their alignment the container holds them by their secondary priorities
\* too (LEFT: the higher one first), whichever was registered first.
C7_PendingUpdateKept ==
    [][ /\ lastCall'.op = "drain" =>
              /\ item'[promoting'] = lastContent[promoting']
              /\ promoting' \in SeqToSet(viewModel')
        /\ pc' = "done" =>
              \A a, b \in PendingPath :
                  (Tie(a, b) /\ disposedIn'[a] = "no" /\ disposedIn'[b] = "no") =>
                      LET c == Container(registered[a].alignment)'
                          sa == registered[a].priority.secondary
                          sb == registered[b].priority.secondary
                      IN /\ {a, b} \subseteq SeqToSet(viewModel')
                         /\ {a, b} \subseteq SeqToSet(c)
                         /\ (PositionIn(viewModel', a) < PositionIn(viewModel', b))
                               <=> SortsBefore(registered[a], registered[b])
                         /\ OnlyEntriesOfAlignment(a, b)' =>
                               ((PositionIn(c, a) < PositionIn(c, b)) <=>
                                  (IF registered[a].alignment = LEFT THEN sa > sb ELSE sa < sb))
      ]_vars

\* a (primary 10) then b (primary 10) were registered and b was updated to c1
\* before its promotion; createContentArea has returned and b shows c1.
C7_Witness ==
    /\ pc = "done"
    /\ Len(registered) = 2
    /\ registered[1] = Entry("a", LEFT, 10, "pending")
    /\ registered[2] = Entry("b", LEFT, 10, "pending")
    /\ NeverDisposed
    /\ pendingEntry[2].entry = "c1"
    /\ item[2] = "c1"
    /\ item[1] = "c0"
    /\ leftItemsContainer = <<1, 2>>

\* ---------------------------------------------------------------- C8
\* C8: on an accessor handed out before the container existed whose live
\* accessor is attached and whose entry is live, update(x) makes the item show
\* x and changes nothing else, and dispose() removes the entry from the view
\* model and its element from the container and changes nothing else.
C8_PromotedAccessorForwards ==
    [][ \A h \in PendingPath :
          (lastCall'.h = h /\ pendingEntry[h].accessor /\ h \in SeqToSet(viewModel)) =>
             /\ lastCall'.op = "update" =>
                   /\ item' = [item EXCEPT ![h] = lastCall'.entry]
                   /\ UNCHANGED <<viewModel, leftItemsContainer, rightItemsContainer,
                                  pendingEntries, pendingEntry>>
             /\ lastCall'.op = "dispose" =>
                   /\ viewModel' = ViewModelRemove(viewModel, h)
                   /\ h \notin SeqToSet(viewModel')
                   /\ h \notin SeqToSet(leftItemsContainer' \o rightItemsContainer')
                   /\ \A g \in Registered \ {h} :
                         /\ Count(leftItemsContainer', g) = Count(leftItemsContainer, g)
                         /\ Count(rightItemsContainer', g) = Count(rightItemsContainer, g)
                         /\ item'[g] = item[g]
                   /\ UNCHANGED <<pendingEntries, pendingEntry>>
      ]_vars

\* A promoted entry was updated to c1 and then disposed through the accessor
\* handed out before the container existed.
C8_Witness ==
    \E h \in PendingPath :
        /\ lastCall = [op |-> "dispose", h |-> h, entry |-> NoItem]
        /\ pendingEntry[h].accessor
        /\ pendingEntry[h].entry = "c0"
        /\ lastContent[h] = "c1"
        /\ disposedIn[h] = "promoted"
        /\ h \notin SeqToSet(viewModel)
        /\ h \notin SeqToSet(leftItemsContainer \o rightItemsContainer)

\* ---------------------------------------------------------------- C9
\* C9: when createContentArea has returned, every entry registered before the
\* container existed whose accessor was disposed is in none of the pending
\* queue, the view model and the containers, and every other such entry shows
\* the content of the last update made through its accessor.
C9_NoCallLostAroundDrain ==
    pc = "done" =>
        \A h \in PendingPath :
            IF disposedIn[h] # "no"
            THEN /\ h \notin SeqToSet(pendingEntries)
                 /\ h \notin SeqToSet(viewModel)
                 /\ h \notin SeqToSet(leftItemsContainer \o rightItemsContainer)
            ELSE item[h] = lastContent[h]

\* --------------------------------------------------------------- C10
\* C10: a dispose() call on an accessor that was disposed before changes none
\* of the pending queue, the view model and the containers.
C10_SecondDisposeChangesNothing ==
    [][ (lastCall'.op = "dispose" /\ disposedIn[lastCall'.h] # "no") =>
            UNCHANGED <<pendingEntries, viewModel, leftItemsContainer, rightItemsContainer>>
      ]_vars

\* --------------------------------------------------------------- C11
\* C11: update(x) through the accessor of an entry that was added while the
\* container existed and is live makes that entry's item show x and changes
\* nothing else: the registrations (id, alignment, priority), the view model's
\* order, the children of both containers, the items of the other entries and
\* the pending queue stay as they were.
C11_LiveUpdateChangesContentOnly ==
    [][ \A h \in Registered :
          (/\ lastCall'.op = "update"
           /\ lastCall'.h = h
           /\ registered[h].path = "live"
           /\ h \in SeqToSet(viewModel)) =>
             /\ item'[h] = lastCall'.entry
             /\ \A g \in Handles \ {h} : item'[g] = item[g]
             /\ UNCHANGED <<registered, viewModel, leftItemsContainer,
                            rightItemsContainer, pendingEntries, pendingEntry>>
      ]_vars

\* b (primary 20) and a (primary 10) were added while the container existed;
\* b, whose element is the first child, was updated to c1 and stays first.
C11_Witness ==
    /\ Len(registered) = 2
    /\ registered[1] = Entry("a", LEFT, 10, "live")
    /\ registered[2] = Entry("b", LEFT, 20, "live")
    /\ lastCall = [op |-> "update", h |-> 2, entry |-> "c1"]
    /\ item[2] = "c1"
    /\ item[1] = "c0"
    /\ viewModel = <<1, 2>>
    /\ leftItemsContainer = <<2, 1>>

\* --------------------------------------------------------------- C12
\* The children of an alignment's container after addEntry was called, while
\* the container exists, for the handles of `order` one after the other.
RECURSIVE PlacedInOrder(_, _, _, _, _)
PlacedInOrder(target, entries, order, alignment, regs) ==
    IF order = <<>> THEN target
    ELSE LET h == Head(order)
         IN PlacedInOrder(
                appendOneStatusbarEntry(target, entries, h, alignment, regs[h].priority, regs),
                ViewModelAdd(entries, h, regs), Tail(order), alignment, regs)

\* The orders in which the handles of S can be added.
OrdersOf(S) ==
    {order \in [1..Cardinality(S) -> S] :
        \A i, j \in 1..Cardinality(S) : i # j => order[i] # order[j]}

OfAlignment(alignment) == {h \in Registered : registered[h].alignment = alignment}

DistinctKeys(S) ==
    \A a, b \in S : a # b => registered[a].priority # registered[b].priority

\* An alignment all of whose registered entries are live and were never disposed.
AllLive(alignment) ==
    /\ pc \in {"idle", "done"}
    /\ element
    /\ \A h \in OfAlignment(alignment) :
          disposedIn[h] = "no" /\ h \in SeqToSet(viewModel)

\* C12: when all entries registered for an alignment are live, were never
\* disposed and have pairwise distinct (primary, secondary) keys, the children
\* of the alignment's container are in the order that adding the same entries
\* in any other order would have produced.
C12_PlacementIndependentOfCallOrder ==
    \A alignment \in StatusbarAlignment :
        (AllLive(alignment) /\ DistinctKeys(OfAlignment(alignment))) =>
            \A order \in OrdersOf(OfAlignment(alignment)) :
                PlacedInOrder(<<>>, <<>>, order, alignment, registered) = Container(alignment)

\* --------------------------------------------------------------- C13
\* The primary priorities of the children of a container, in child order.
PrimariesOf(children) ==
    [i \in 1..Len(children) |-> registered[children[i]].priority.primary]

\* Every registered entry was added while the container existed.
OnlyLiveAdds == \A h \in Registered : registered[h].path = "live"

\* C13: after any sequence of addEntry calls made while the container
\* exists, the primary priorities of the right container's children never
\* increase in child order and those of the left container's children never
\* decrease.
C13_DomOrderByPrimary ==
    OnlyLiveAdds =>
        LET l == PrimariesOf(leftItemsContainer)
            r == PrimariesOf(rightItemsContainer)
        IN /\ \A i, j \in 1..Len(l) : i < j => l[i] <= l[j]
           /\ \A i, j \in 1..Len(r) : i < j => r[i] >= r[j]

\* --------------------------------------------------------------- C14
\* C14: two entries of one alignment that tie on the primary priority and
\* differ in the secondary one, both live with their elements in the
\* container, stand in the child order their secondary priorities alone
\* decide (LEFT: the higher one first, RIGHT: the lower one first), whichever
\* was added first and whatever else the container holds.
C14_TieOrderBySecondaryAlone ==
    \A a, b \in Registered :
        LET c == Container(registered[a].alignment)
            sa == registered[a].priority.secondary
            sb == registered[b].priority.secondary
        IN (/\ Tie(a, b)
            /\ OnlyLiveAdds
            /\ {a, b} \subseteq SeqToSet(viewModel)
            /\ {a, b} \subseteq SeqToSet(c)) =>
               ((PositionIn(c, a) < PositionIn(c, b)) <=>
                    (IF registered[a].alignment = LEFT THEN sa > sb ELSE sa < sb))

\* --------------------------------------------------------------- C15
\* C15: after updateEntryVisibility(id, false) isEntryVisible(id) is false
\* and after updateEntryVisibility(id, true) it is true, in particular when
\* the second call follows the first; isEntryVisible(id) is the negation of
\* the view model's isHidden(id); and after a restart, when the hidden ids
\* are read back from the storage service, isEntryVisible gives for every id
\* the answer it gave before.
C15_VisibilityRoundTrip ==
    [][ /\ \A id \in Ids :
              (lastCall'.op = "updateEntryVisibility" /\ lastCall'.id = id) =>
                  isEntryVisible(id)' = lastCall'.visible
        /\ \A id \in Ids :
              (/\ lastCall.op = "updateEntryVisibility"
               /\ lastCall.id = id
               /\ ~lastCall.visible
               /\ lastCall'.op = "updateEntryVisibility"
               /\ lastCall'.id = id
               /\ lastCall'.visible) =>
                  (~isEntryVisible(id) /\ isEntryVisible(id)')
        /\ \A id \in Ids : isEntryVisible(id)' = ~ViewModelIsHidden(hidden', id)
        /\ lastCall'.op = "restart" =>
              \A id \in Ids : isEntryVisible(id)' = isEntryVisible(id)
      ]_vars

\* The container exists and holds a live entry of id b; c is hidden, in the
\* view model and in the storage service, and b has just been shown.
C15_Witness ==
    /\ lastCall.op = "updateEntryVisibility"
    /\ lastCall.id = "b"
    /\ lastCall.visible
    /\ hidden = {"c"}
    /\ storage = {"c"}
    /\ pc = "done"
    /\ \E h \in SeqToSet(viewModel) : registered[h].id = "b"

\* --------------------------------------------------------------- C16
\* C16: focus(preserveEntryFocus) schedules a callback only when
\* preserveEntryFocus is set and the view model has a last focused entry,
\* and then for that entry; a dispose() call on the entry of a scheduled
\* callback removes the entry from the view model and its element from the
\* containers; and a callback that runs when its entry is no longer in the
\* view model changes nothing: the entry does not take the focus, the
\* focused entry, the view model, the containers, the items, the pending
\* queue and the hidden ids stay as they were.
C16_FocusCallbackToleratesDisposal ==
    [][ /\ (lastCall'.op = "focus" /\ timers' # timers) =>
              /\ lastCall'.preserveEntryFocus
              /\ LastFocusedEntry # 0
              /\ timers' = Append(timers, LastFocusedEntry)
        /\ (lastCall'.op = "dispose" /\ lastCall'.h \in SeqToSet(timers)) =>
              /\ lastCall'.h \notin SeqToSet(viewModel')
              /\ lastCall'.h \notin SeqToSet(leftItemsContainer' \o rightItemsContainer')
        /\ (lastCall'.op = "focusCallback" /\ lastCall'.h \notin SeqToSet(viewModel)) =>
              /\ FocusedEntry' = FocusedEntry
              /\ FocusedEntry' # lastCall'.h
              /\ UNCHANGED <<model, visibility, lastFocused, activeElement>>
      ]_vars

\* An entry was focused, focus(true) scheduled the callback for it, the entry
\* was disposed and then the callback ran: the container still has the focus.
C16_Witness ==
    \E h \in Registered :
        /\ lastCall.op = "focusCallback"
        /\ lastCall.h = h
        /\ lastFocused = h
        /\ disposedIn[h] = "live"
        /\ h \notin SeqToSet(viewModel)
        /\ ~Attached(h)
        /\ activeElement = [at |-> "container", h |-> 0]
        /\ timers = <<>>

\* --------------------------------------------------------------- C17
\* The toggle-visibility actions and the hide-entry actions of the menu.
IsToggleEntry(action) == action.kind = "toggleEntry"
IsHideEntry(action) == action.kind = "hideEntry"

\* The place of the first view model entry with the given id.
FirstWithId(id) ==
    CHOOSE k \in 1..Len(viewModel) :
        /\ registered[viewModel[k]].id = id
        /\ \A j \in 1..(k - 1) : registered[viewModel[j]].id # id

\* C17: the context menu shown last has exactly one toggle-visibility action
\* for every id that some view model entry has and none for any other id,
\* the toggle actions stand in the order in which their ids first occur in
\* the view model, and the menu has one hide action, for the id of that
\* entry, when the event target is the item container of a view model entry
\* or lies inside it, and no hide action otherwise.
C17_ContextMenuActions ==
    lastCall.op = "showContextMenu" =>
        LET toggles == SelectSeq(contextMenu, IsToggleEntry)
            hides == SelectSeq(contextMenu, IsHideEntry)
            target == lastCall.target
            under == {h \in SeqToSet(viewModel) :
                         target \in {ItemContainer(h), LabelContainer(h)}}
        IN /\ \A id \in Ids :
                 Cardinality({i \in 1..Len(toggles) : toggles[i].id = id}) =
                     IF \E h \in SeqToSet(viewModel) : registered[h].id = id THEN 1 ELSE 0
           /\ \A i, j \in 1..Len(toggles) :
                 i < j => FirstWithId(toggles[i].id) < FirstWithId(toggles[j].id)
           /\ IF under = {} THEN hides = <<>>
              ELSE /\ Len(hides) = 1
                   /\ \A h \in under : hides[1].id = registered[h].id

\* Two live entries share the id a and a third has the id c; the context menu
\* was requested on the label of one of the entries of id a.
C17_Witness ==
    /\ lastCall.op = "showContextMenu"
    /\ Len(viewModel) = 3
    /\ \E h, g \in SeqToSet(viewModel) :
          /\ h # g
          /\ registered[h].id = "a"
          /\ registered[g].id = "a"
          /\ lastCall.target = LabelContainer(g)
    /\ \E h \in SeqToSet(viewModel) : registered[h].id = "c"
    /\ Len(contextMenu) = 6
    /\ contextMenu[6] = HideStatusbarEntryAction("a")

\* --------------------------------------------------------------- C18
\* The priority the scan compares for an existing entry x and a new entry y:
\* the secondary priorities when the primary ones are equal, else the primary.
ComparedPriority(x, y) ==
    IF x.priority.primary = y.priority.primary
    THEN x.priority.secondary
    ELSE x.priority.primary

\* C18: a step that places the element of a new entry h (addEntry while the
\* container exists, or the promotion of a pending entry) scans the entries
\* getEntries gave for h's alignment before the step, in that order for LEFT
\* and reversed for RIGHT; the element is inserted immediately before the
\* element of the first scanned entry whose compared priority is strictly
\* lower (LEFT) or strictly higher (RIGHT) than that of h, and is appended as
\* the last child when there is no such entry.  The other container keeps
\* its children.
C18_InsertionRule ==
    [][ \A h \in Handles :
          (/\ lastCall'.op \in {"addEntry", "drain"}
           /\ lastCall'.h = h
           /\ h \notin SeqToSet(viewModel)
           /\ h \in SeqToSet(viewModel')) =>
             LET new == registered'[h]
                 alignment == new.alignment
                 own == GetEntries(viewModel, alignment, registered')
                 scan == IF alignment = RIGHT THEN Reverse(own) ELSE own
                 hits == {i \in 1..Len(scan) :
                             LET existing == ComparedPriority(registered'[scan[i]], new)
                                 mine == ComparedPriority(new, registered'[scan[i]])
                             IN IF alignment = LEFT THEN existing < mine ELSE existing > mine}
                 target == IF alignment = LEFT THEN leftItemsContainer
                           ELSE rightItemsContainer
                 after == IF alignment = LEFT THEN leftItemsContainer'
                          ELSE rightItemsContainer'
             IN /\ IF alignment = LEFT THEN UNCHANGED rightItemsContainer
                   ELSE UNCHANGED leftItemsContainer
                /\ IF hits = {}
                   THEN after = Append(target, h)
                   ELSE LET first == CHOOSE i \in hits : \A j \in hits : i <= j
                            k == PositionIn(target, scan[first])
                        IN /\ k # 0
                           /\ after = SubSeq(target, 1, k - 1) \o <<h>>
                                          \o SubSeq(target, k, Len(target))
      ]_vars

\* a (primary 10) and b (primary 20) are live, left container [b, a]; a second
\* entry of id a and primary 10, exactly equal in priority to the first, has
\* just been added and was appended as the last child.
C18_Witness ==
    /\ Len(registered) = 3
    /\ registered[1] = Entry("a", LEFT, 10, "live")
    /\ registered[2] = Entry("b", LEFT, 20, "live")
    /\ registered[3] = Entry("a", LEFT, 10, "live")
    /\ lastCall.op = "addEntry"
    /\ lastCall.h = 3
    /\ leftItemsContainer = <<2, 1, 3>>

\* --------------------------------------------------------------- C19
\* C19: when createContentArea has returned and the registered entries of
\* each alignment have pairwise distinct (primary, secondary) keys, the
\* children of the left container are the entries of getEntries(LEFT) in
\* that order and the children of the right container are the entries of
\* getEntries(RIGHT) in reversed order, which is the order
\* appendAllStatusbarEntries produces for the same view model.
C19_IncrementalAgreesWithBulk ==
    (/\ pc = "done"
     /\ DistinctKeys(OfAlignment(LEFT))
     /\ DistinctKeys(OfAlignment(RIGHT))) =>
        /\ leftItemsContainer = GetEntries(viewModel, LEFT, registered)
        /\ leftItemsContainer = appendAllStatusbarEntries(<<>>, viewModel, LEFT, registered)
        /\ rightItemsContainer = Reverse(GetEntries(viewModel, RIGHT, registered))
        /\ rightItemsContainer = appendAllStatusbarEntries(<<>>, viewModel, RIGHT, registered)

\* --------------------------------------------------------------- C20
\* C20: the step that creates the container sets the container reference and
\* appends the elements of the entries the view model has, in the order of
\* appendAllStatusbarEntries, and leaves the pending queue and the view model
\* as they are; a pending entry is promoted only when the container reference
\* is set and the element of every view model entry is in a container; and
\* once the container reference is set it stays set.
C20_BoundOnceThenDrained ==
    [][ /\ element => element'
        /\ lastCall'.op = "createContentArea" =>
              /\ ~element
              /\ element'
              /\ leftItemsContainer' =
                     appendAllStatusbarEntries(<<>>, viewModel, LEFT, registered)
              /\ rightItemsContainer' =
                     appendAllStatusbarEntries(<<>>, viewModel, RIGHT, registered)
              /\ UNCHANGED <<pendingEntries, pendingEntry, viewModel>>
        /\ lastCall'.op = "drain" =>
              /\ element
              /\ \A g \in SeqToSet(viewModel) : Attached(g)
              /\ pendingEntries # <<>>
              /\ pendingEntries' = Tail(pendingEntries)
      ]_vars

\* Two entries were registered before the container existed; the container
\* reference is set, the first entry has just been promoted and the second
\* is still in the pending queue.
C20_Witness ==
    /\ element
    /\ pc = "notify"
    /\ lastCall.op = "drain"
    /\ promoting = 1
    /\ pendingEntries = <<2>>
    /\ viewModel = <<1>>
    /\ Attached(1)
    /\ ~Attached(2)

\* --------------------------------------------------------------- C21
\* C21: dispose() through an accessor handed out before the container
\* existed, whose live accessor is not attached yet, takes that one
\* registration out of the pending queue: the queue afterwards is the queue
\* before without it, every other registration, those of the same id,
\* alignment and priority included, is still queued once and in the same
\* relative order, and the view model, both containers, the items and the
\* recorded pending entries are unchanged.
C21_PendingDisposeRemovesOne ==
    [][ \A h \in PendingPath :
          (/\ lastCall'.op = "dispose"
           /\ lastCall'.h = h
           /\ ~pendingEntry[h].accessor) =>
             /\ h \notin SeqToSet(pendingEntries')
             /\ \A g \in Registered \ {h} :
                   Count(pendingEntries', g) = Count(pendingEntries, g)
             /\ \A a, b \in SeqToSet(pendingEntries') :
                   (PositionIn(pendingEntries', a) < PositionIn(pendingEntries', b))
                       <=> (PositionIn(pendingEntries, a) < PositionIn(pendingEntries, b))
             /\ UNCHANGED <<viewModel, leftItemsContainer, rightItemsContainer,
                            item, pendingEntry, registered>>
      ]_vars

\* Three entries were registered before the container existed, the first and
\* the third with the same id, alignment and priority; the first was disposed
\* and the second and the third are still queued, in that order.
C21_Witness ==
    /\ ~element
    /\ Len(registered) = 3
    /\ registered[1] = Entry("a", LEFT, 10, "pending")
    /\ registered[2] = Entry("b", LEFT, 10, "pending")
    /\ registered[3] = Entry("a", LEFT, 10, "pending")
    /\ lastCall = [op |-> "dispose", h |-> 1, entry |-> NoItem]
    /\ disposedIn[1] = "unbound"
    /\ pendingEntries = <<2, 3>>
    /\ viewModel = <<>>

\* --------------------------------------------------------------- C22
\* s without h, the other elements in their order.
Without(s, h) == Filter(s, SeqToSet(s) \ {h})

\* C22: dispose() through the accessor of an entry that was added while the
\* container existed and is live removes the entry from the view model and
\* its element from its container and changes nothing else: the other
\* entries keep their order in the view model and in both containers, their
\* items, the registrations and the pending queue stay as they were; and
\* when an entry is added after such a disposal, all entries having been
\* added while the container existed with pairwise distinct keys per
\* alignment, the children of the left container are the entries of
\* getEntries(LEFT) in that order and the children of the right container
\* those of getEntries(RIGHT) in reversed order.
C22_LiveDisposeRemovesOne ==
    [][ /\ \A h \in Registered :
              (/\ lastCall'.op = "dispose"
               /\ lastCall'.h = h
               /\ registered[h].path = "live"
               /\ h \in SeqToSet(viewModel)) =>
                 /\ viewModel' = Without(viewModel, h)
                 /\ leftItemsContainer' = Without(leftItemsContainer, h)
                 /\ rightItemsContainer' = Without(rightItemsContainer, h)
                 /\ h \notin SeqToSet(viewModel')
                 /\ h \notin SeqToSet(leftItemsContainer' \o rightItemsContainer')
                 /\ \A g \in Handles \ {h} : item'[g] = item[g]
                 /\ UNCHANGED <<registered, pendingEntries, pendingEntry>>
        /\ (/\ lastCall'.op = "addEntry"
            /\ element
            /\ \E g \in Registered : disposedIn[g] = "live"
            /\ \A g \in 1..Len(registered') : registered'[g].path = "live"
            /\ \A a, b \in 1..Len(registered') :
                  (a # b /\ registered'[a].alignment = registered'[b].alignment)
                      => registered'[a].priority # registered'[b].priority) =>
                 /\ leftItemsContainer' = GetEntries(viewModel', LEFT, registered')
                 /\ rightItemsContainer' = Reverse(GetEntries(viewModel', RIGHT, registered'))
      ]_vars

\* --------------------------------------------------------------- C23
\* The operations of the pane that call updateEditorViewState.
EditorCalls == {"closeEditor", "setInput", "clearInput", "saveState"}

C24_PersistedBeforeInputChanges ==
    [][ /\ lastCall'.op \in {"setInput", "clearInput", "saveState"} =>
             LET outgoing == toEditorViewStateResource(input)
                 handled == /\ input # NoInput
                            /\ tracksEditorViewState(input)
                            /\ outgoing # NoResource
             IN /\ \A k \in DOMAIN viewState :
                      viewState'[k] # viewState[k] => (handled /\ k[2] = outgoing)
                /\ (/\ handled
                    /\ ~isDisposed(input)
                    /\ group # NoGroup
                    /\ lastCall'.computed # NoViewState) =>
                      viewState'[<<group, outgoing>>] = lastCall'.computed
                /\ (handled /\ isDisposed(input) /\ ~lastCall'.tracksDisposed) =>
                      \A g \in Groups :
                         (group = NoGroup \/ g = group) =>
                            viewState'[<<g, outgoing>>] = NoViewState
                /\ input' = CASE lastCall'.op = "setInput" -> lastCall'.input
                              [] lastCall'.op = "clearInput" -> NoInput
                              [] OTHER -> input
        /\ (lastCall'.op = "closeEditor" /\ lastCall'.input # input) =>
              viewState' = viewState
      ]_vars

\* setInput replaced an input by i2 while the control's state was v2: the
\* memento holds v2 for r1 and nothing for r2, the resource of i2.
C24_Witness ==
    /\ lastCall.op = "setInput"
    /\ lastCall.input = "i2"
    /\ input = "i2"
    /\ lastCall.computed = "v2"
    /\ group = "g1"
    /\ viewState[<<"g1", "r1">>] = "v2"
    /\ viewState[<<"g1", "r2">>] = NoViewState

====
